---- MODULE Spec2Model ----
(***************************************************************************)
(* A model of the Jack-of-Trades overlay scripts.                          *)
(*                                                                         *)
(*   - the three polling variants of main.ts (variant "A" is               *)
(*     src/unnamed/part_001, "B" is src/unnamed/part_002 lines 1-170,      *)
(*     "C" is src/unnamed/part_002 lines 172-355) together with ui.ts      *)
(*     (src/unnamed/part_004) and skillList.ts (src/unnamed/part_003):     *)
(*     specification Spec, and PollSpec for pollChatboxForJoT alone;       *)
(*   - the template-matching script src/src/main.ts with its manual        *)
(*     tracker: specification MainSpec.                                    *)
(*                                                                         *)
(* Text is a sequence of one-character strings, so that the regular        *)
(* expressions are computed character by character.                        *)
(***************************************************************************)
EXTENDS Integers, Sequences, FiniteSets, TLC

VARIABLES
  \* ---- polling variants ----
  variant,          \* which of the three polling scripts is loaded
  windowAlt1,       \* window.alt1: "undefined" or the shape of the injected object
  phase,            \* "loading" (before DOMContentLoaded), "waiting", "running"
  timers,           \* number of pending setTimeout(waitForAlt1, 500) callbacks
  alt1Api,          \* the module variable alt1Api: "null" or "window.alt1"
  initCalls,        \* how many times init() has been entered
  checkboxes,       \* the sidebar: checkbox id -> checked
  resetListeners,   \* number of click listeners on #reset-btn
  completedSkills,  \* the Set completedSkills, in insertion order
  canvasSize,       \* <<overlayCanvas.width, overlayCanvas.height>>
  canvas,           \* the rectangles stroked on the overlay canvas
  pass,             \* the suspended highlightCompletedSkills() call, or "idle"
  frames,           \* number of pending requestAnimationFrame(mainLoop) callbacks
  chatWindow,       \* PollSpec: the chat window of the poll
  lastStep,         \* the handler that ran last
  prevCompleted,    \* completedSkills before that handler ran
  \* ---- src/src/main.ts ----
  mAlt1,            \* window.alt1 as this page load sees it
  overlayApi,       \* whether the alt1 module has an overlay object
  mpc,              \* where the startup function stands
  mIdx,             \* the index of the skill steps 8 and 9 are at
  templates,        \* the names pushed to templates, in order
  binds,            \* the regions the host holds bound
  renderCalls,      \* calls of renderManualTracker in this page load
  loopFrames,       \* pending window.requestAnimationFrame(loop) callbacks
  findPending,      \* loop iterations whose chatbox.find promise is pending
  overlayCalls,     \* overlay calls made in this page load
  skillMap,         \* skillMap: skill name -> screen coordinates
  doneSkills,       \* the Set doneSkills
  localStorage,     \* localStorage: key -> string
  manualBoxes,      \* the manual tracker's checkboxes: id -> checked
  mLast             \* the step of main.ts that ran last

pollVars == <<variant, windowAlt1, phase, timers, alt1Api, initCalls, checkboxes,
              resetListeners, completedSkills, canvasSize, canvas, pass, frames,
              chatWindow, lastStep, prevCompleted>>

mainVars == <<mAlt1, overlayApi, mpc, mIdx, templates, binds, renderCalls, loopFrames,
              findPending, overlayCalls, skillMap, doneSkills, localStorage,
              manualBoxes, mLast>>

vars == <<pollVars, mainVars>>

-----------------------------------------------------------------------------
\* Bounds of the model.

\* The skills that chat lines and clicks of the model name: the first
\* NumInputSkills entries of SKILLS.
NumInputSkills == 2

\* The skills whose icons the template match of src/src/main.ts may find, whose
\* messages its chat tokens carry and whose manual checkboxes are clicked: the
\* first NumMainSkills entries of skillNames.
NumMainSkills == 2

\* The longest rawWords array a chatbox.find result of the model carries.
MaxTokens == 2

-----------------------------------------------------------------------------
\* skillList.ts

SKILLS ==
  << "Attack", "Constitution", "Mining", "Strength", "Agility", "Smithing",
     "Defence", "Herblore", "Fishing", "Ranged", "Thieving", "Cooking", "Prayer",
     "Crafting", "Firemaking", "Magic", "Fletching", "Woodcutting", "Runecrafting",
     "Slayer", "Farming", "Construction", "Hunter", "Summoning", "Dungeoneering",
     "Divination", "Invention", "Necromancy", "Archaeology" >>

Range(s) == { s[i] : i \in DOMAIN s }

SkillSet == Range(SKILLS)

\* Array.prototype.includes
Includes(arr, x) == \E i \in DOMAIN arr : arr[i] = x

\* Array.prototype.indexOf, zero-based, for a member of the array
IndexOf(arr, x) == (CHOOSE i \in DOMAIN arr : arr[i] = x /\ \A j \in 1..(i-1) : arr[j] # x) - 1

InputSkills == { SKILLS[i] : i \in 1..NumInputSkills }

-----------------------------------------------------------------------------
\* Text.

Letters ==
  { "A","B","C","D","E","F","G","H","I","J","K","L","M","N","O","P","Q","R","S","T",
    "U","V","W","X","Y","Z","a","b","c","d","e","f","g","h","i","j","k","l","m","n",
    "o","p","q","r","s","t","u","v","w","x","y","z" }

Digits == { "0","1","2","3","4","5","6","7","8","9" }

\* The string a sequence of characters spells.
RECURSIVE Join(_)
Join(cs) == IF cs = << >> THEN "" ELSE Head(cs) \o Join(Tail(cs))

\* The literal `lit` stands in `text` at position p.
LitAt(text, p, lit) ==
  /\ p + Len(lit) - 1 <= Len(text)
  /\ \A i \in 1..Len(lit) : text[p + i - 1] = lit[i]

\* The length of the longest run of characters of `class` in `text` from position p.
RECURSIVE RunLen(_, _, _)
RunLen(text, p, class) ==
  IF p <= Len(text) /\ text[p] \in class THEN 1 + RunLen(text, p + 1, class) ELSE 0

Max(S) == CHOOSE x \in S : \A y \in S : y <= x
Min(S) == CHOOSE x \in S : \A y \in S : x <= y

\* The result of RegExp.prototype.exec / String.prototype.match: null, or the
\* match array, of which the model keeps group 1 at index 1.
NoMatch == << >>
MatchOf(group1) == << group1 >>

-----------------------------------------------------------------------------
\* jotRegex of the polling variants:
\*  /You gain experience in ([A-Za-z]+) and have now completed \d+\/\d+ skills for your Jack of Trades aura\./

JotLitHead ==
  <<"Y","o","u"," ","g","a","i","n"," ","e","x","p","e","r","i","e","n","c","e"," ","i",
    "n"," ">>
JotLitMid ==
  <<" ","a","n","d"," ","h","a","v","e"," ","n","o","w"," ","c","o","m","p","l","e","t",
    "e","d"," ">>
JotLitTail ==
  <<" ","s","k","i","l","l","s"," ","f","o","r"," ","y","o","u","r"," ","J","a","c","k",
    " ","o","f"," ","T","r","a","d","e","s"," ","a","u","r","a",".">>

\* \d+ skills for your Jack of Trades aura\.  matches at p
JotTailAt(text, p) ==
  \E n \in 1..RunLen(text, p, Digits) : LitAt(text, p + n, JotLitTail)

\* \d+\/\d+ skills for ...  matches at p
JotCountAt(text, p) ==
  \E n \in 1..RunLen(text, p, Digits) :
    /\ LitAt(text, p + n, << "/" >>)
    /\ JotTailAt(text, p + n + 1)

\* The lengths n of a name [A-Za-z]+ at p after which the rest of the pattern matches.
JotNameLens(text, p) ==
  { n \in 1..RunLen(text, p, Letters) :
      /\ LitAt(text, p + n, JotLitMid)
      /\ JotCountAt(text, p + n + Len(JotLitMid)) }

\* The pattern matches with its first character at position p.
JotMatchesAt(text, p) ==
  /\ LitAt(text, p, JotLitHead)
  /\ JotNameLens(text, p + Len(JotLitHead)) # {}

\* jotRegex.exec(text): group 1 of the leftmost match (the quantifier is greedy),
\* or null.
JotExec(text) ==
  LET starts == { p \in 1..Len(text) : JotMatchesAt(text, p) } IN
  IF starts = {} THEN NoMatch
  ELSE LET p == Min(starts)
           q == p + Len(JotLitHead)
           n == Max(JotNameLens(text, q))
       IN  MatchOf(Join(SubSeq(text, q, q + n - 1)))

-----------------------------------------------------------------------------
\* The Set completedSkills: a JavaScript Set keeps insertion order.

SetHas(set, x) == \E i \in DOMAIN set : set[i] = x
SetAdd(set, x) == IF SetHas(set, x) THEN set ELSE Append(set, x)
SetDelete(set, x) == SelectSeq(set, LAMBDA y : y # x)
SetClear(set) == << >>

-----------------------------------------------------------------------------
\* ui.ts.  The sidebar is the function from the ids of the checkboxes that
\* exist to their checked state.

\* checkbox.id = `chk-${skill}`
ChkId(skill) == "chk-" \o skill

\* The id of each skill's checkbox, and the skill of each id.
ChkIdOf == [ s \in SkillSet |-> ChkId(s) ]
SkillOfChk == [ id \in { ChkIdOf[s] : s \in SkillSet } |->
                  CHOOSE s \in SkillSet : ChkIdOf[s] = id ]

\* buildCheckboxUI(skills, selected, listEl, onToggle): listEl is emptied and one
\* checkbox per skill is created, checked iff selected.has(skill).
buildCheckboxUI(skills, selected) ==
  [ id \in { ChkIdOf[skills[i]] : i \in DOMAIN skills } |-> SetHas(selected, SkillOfChk[id]) ]

\* Mutant of updateCheckboxUI: no checkbox is touched.
updateCheckboxUINothing(skills, selected, boxes) == boxes

\* updateCheckboxUI(skills, selected, listEl): every checkbox found by id gets
\* checked = selected.has(skill); a skill without a checkbox is skipped.
updateCheckboxUI(skills, selected, boxes) ==
  LET ids == { ChkIdOf[skills[i]] : i \in DOMAIN skills } IN
  [ id \in DOMAIN boxes |->
      IF id \in ids THEN SetHas(selected, SkillOfChk[id]) ELSE boxes[id] ]

-----------------------------------------------------------------------------
\* Chat lines of the model.  A line is named by a key: "none" when getChatLine
\* returns nothing, else the key of its text.

Spell ==
  [Attack |-> <<"A","t","t","a","c","k">>,
   Constitution |-> <<"C","o","n","s","t","i","t","u","t","i","o","n">>,
   Mining |-> <<"M","i","n","i","n","g">>,
   Strength |-> <<"S","t","r","e","n","g","t","h">>,
   Agility |-> <<"A","g","i","l","i","t","y">>,
   Smithing |-> <<"S","m","i","t","h","i","n","g">>,
   Runecraft |-> <<"R","u","n","e","c","r","a","f","t">>]

\* "You gain experience in <name> and have now completed 7/15 skills for your
\* Jack of Trades aura."
JotText(name) ==
  JotLitHead \o name \o JotLitMid \o << "7", "/", "1", "5" >> \o JotLitTail

\* The same message without the "/15": jotRegex does not match it.
JotTextNoTotal(name) == JotLitHead \o name \o JotLitMid \o << "7" >> \o JotLitTail

TimeStamp == << "[", "1", "2", ":", "0", "0", "]", " " >>

\* A line whose first message names "Runecraft", which is not in SKILLS, followed
\* by a message that names SKILLS[1]: exec captures the first one only.
OtherNameText ==
  TimeStamp \o JotText(Spell["Runecraft"]) \o << " " >> \o JotText(Spell[SKILLS[1]])

LineKeys == { "none", "empty", "other", "nototal" } \cup InputSkills

TextKeys == LineKeys \ { "none" }

ChatText ==
  [ k \in TextKeys |->
      CASE k = "empty" -> << >>
        [] k = "other" -> OtherNameText
        [] k = "nototal" -> JotTextNoTotal(Spell[SKILLS[1]])
        [] OTHER -> JotText(Spell[k]) ]

NoLine == [present |-> FALSE, text |-> << >>]
LineOf(text) == [present |-> TRUE, text |-> text]

\* chatboxApi.getChatLine(i) on the window `window` of line keys.
getChatLine(window, i) ==
  IF window[i + 1] = "none" THEN NoLine ELSE LineOf(ChatText[window[i + 1]])

\* for (let i = 0; i < 5; i++)
PollLines == 5

\* Every window of PollLines lines.
ChatWindows == [1..PollLines -> LineKeys]

\* The windows of a chat that holds at most its newest line and one older line.
FrameWindows ==
  { [ i \in 1..PollLines |-> IF i = 1 THEN a ELSE IF i = 2 THEN b ELSE "none" ] :
      a \in LineKeys, b \in { "none", SKILLS[2] } }

NoWindow == [ i \in 1..PollLines |-> "none" ]

\* jotRegex.exec on the texts of the model, computed once.
JotExecMemo == [ k \in TextKeys |-> JotExec(ChatText[k]) ]
jotRegexExec(text) ==
  IF \E k \in TextKeys : ChatText[k] = text
  THEN JotExecMemo[CHOOSE k \in TextKeys : ChatText[k] = text]
  ELSE JotExec(text)

-----------------------------------------------------------------------------
\* pollChatboxForJoT.

\* Mutant of PollLine: the captured name is not looked up in SKILLS.
PollLineAnyName(st, line) ==
  IF ~line.present THEN st
  ELSE LET match == jotRegexExec(line.text) IN
       IF match = NoMatch THEN st
       ELSE LET skillName == match[1] IN
            IF ~SetHas(st.completed, skillName)
            THEN LET added == SetAdd(st.completed, skillName) IN
                 [completed |-> added,
                  boxes |-> updateCheckboxUI(SKILLS, added, st.boxes)]
            ELSE st

\* One iteration of the loop body on line `line`, from the state st =
\* [completed, boxes].
PollLine(st, line) ==
  IF ~line.present THEN st
  ELSE LET match == jotRegexExec(line.text) IN
       IF match = NoMatch THEN st
       ELSE LET skillName == match[1] IN
            IF Includes(SKILLS, skillName) /\ ~SetHas(st.completed, skillName)
            THEN LET added == SetAdd(st.completed, skillName) IN
                 [completed |-> added,
                  boxes |-> updateCheckboxUI(SKILLS, added, st.boxes)]
            ELSE st

RECURSIVE PollFrom(_, _, _)
PollFrom(st, window, i) ==
  IF i >= PollLines THEN st
  ELSE PollFrom(PollLine(st, getChatLine(window, i)), window, i + 1)

\* pollChatboxForJoT() with completedSkills = completed and the sidebar = boxes,
\* on the chat window `window`.
pollChatboxForJoT(completed, boxes, window) ==
  PollFrom([completed |-> completed, boxes |-> boxes], window, 0)

-----------------------------------------------------------------------------
\* The host object.  window.alt1 is undefined until the host injects it; the
\* injected object has some of the properties the scripts use ("canvasWidth"
\* stands for canvasWidth and canvasHeight, "screenWidth" for screenWidth and
\* screenHeight, "chatbox" for a chatbox object with getChatLine).

HostProps == { "requestAnimationFrame", "screenWidth", "chatbox", "canvasWidth" }

Undefined == [defined |-> FALSE, props |-> {}]
HostObject(props) == [defined |-> TRUE, props |-> props]

\* typeof obj.prop === "function" (or "object" for chatbox)
Has(obj, prop) == obj.defined /\ prop \in obj.props

\* The condition of the if in waitForAlt1.
DetectA(alt1) == alt1.defined /\ Has(alt1, "requestAnimationFrame")
DetectB(alt1) == alt1.defined
DetectC(alt1) == alt1.defined /\ Has(alt1, "screenWidth") /\ Has(alt1, "chatbox")

Detect(v, alt1) ==
  CASE v = "A" -> DetectA(alt1)
    [] v = "B" -> DetectB(alt1)
    [] v = "C" -> DetectC(alt1)

\* The sizes the host reports for the game window; the first is the size of a
\* canvas element that was never resized.
Dims == { << 300, 150 >>, << 800, 600 >> }

-----------------------------------------------------------------------------
\* The overlay canvas and highlightCompletedSkills.

\* findSkillIconPosition(skill): the stub's rectangle.
findSkillIconPosition(skill) ==
  [x |-> 50 + IndexOf(SKILLS, skill) * 40, y |-> 100, w |-> 32, h |-> 32]

\* Mutant of clearRect: the canvas is not cleared.
clearRectSkipped(cv) == cv

\* ctx.clearRect(0, 0, overlayCanvas.width, overlayCanvas.height)
clearRect(cv) == {}

\* if (w > 0 && h > 0) ctx.strokeRect(x, y, w, h)
strokeIfVisible(cv, r) == IF r.w > 0 /\ r.h > 0 THEN cv \cup { r } ELSE cv

Idle == [active |-> FALSE, idx |-> 0, skill |-> ""]

\* The for-of loop takes the next entry of the Set after position idx and
\* suspends at the await of findSkillIconPosition; with no entry left the
\* async function returns.
NextOfPass(completed, idx) ==
  IF idx + 1 <= Len(completed)
  THEN [active |-> TRUE, idx |-> idx + 1, skill |-> completed[idx + 1]]
  ELSE Idle

\* Tasks (timer callbacks, frame callbacks, DOM events) start only when the
\* microtask queue is empty, that is when no continuation of an await is pending.
MicrotaskQueueEmpty == ~pass.active

-----------------------------------------------------------------------------
\* Handlers of the polling variants.

\* onCheckboxToggle(skill, isChecked) on st = [completed, boxes]
onCheckboxToggle(st, skill, isChecked) ==
  LET sel == IF isChecked THEN SetAdd(st.completed, skill)
             ELSE SetDelete(st.completed, skill)
  IN  [completed |-> sel, boxes |-> updateCheckboxUI(SKILLS, sel, st.boxes)]

\* Mutant of resetHandler: the Set is cleared and the sidebar is not updated.
resetHandlerNoUpdate(st) == [completed |-> SetClear(st.completed), boxes |-> st.boxes]

\* The click listener init() puts on #reset-btn.
resetHandler(st) ==
  LET sel == SetClear(st.completed)
  IN  [completed |-> sel, boxes |-> updateCheckboxUI(SKILLS, sel, st.boxes)]

\* Step 5 of init(): variants A and B call alt1Api.requestAnimationFrame, which
\* throws a TypeError when the host object has no such function; variant C
\* calls window.requestAnimationFrame.
CanScheduleFrame(v, alt1) ==
  IF v = "C" THEN TRUE ELSE Has(alt1, "requestAnimationFrame")

\* Step a) of mainLoop: variants A and B call alt1Api.canvasWidth(), variant C
\* alt1Api.screenWidth().
CanReadSize(v, alt1) ==
  IF v = "C" THEN Has(alt1, "screenWidth") ELSE Has(alt1, "canvasWidth")

\* init(), entered from waitForAlt1 after alt1Api = window.alt1.
init ==
  /\ initCalls' = initCalls + 1
  /\ phase' = "running"
  /\ checkboxes' = buildCheckboxUI(SKILLS, completedSkills)
  /\ resetListeners' = resetListeners + 1
  /\ frames' = IF CanScheduleFrame(variant, windowAlt1) THEN frames + 1 ELSE frames
  /\ UNCHANGED <<completedSkills, canvasSize, canvas, pass, chatWindow>>

\* Mutant of TimersAfterWait: a timer is set on both branches.
TimersAfterWaitAlways(detected, pending) == pending + 1

\* The pending timers after waitForAlt1: the else branch calls
\* setTimeout(waitForAlt1, 500), the branch that calls init() sets no timer.
TimersAfterWait(detected, pending) == IF detected THEN pending ELSE pending + 1

\* waitForAlt1(), with `pending` timers left once this call began.
waitForAlt1(pending) ==
  /\ prevCompleted' = completedSkills
  /\ IF Detect(variant, windowAlt1)
     THEN /\ alt1Api' = "window.alt1"
          /\ timers' = TimersAfterWait(TRUE, pending)
          /\ lastStep' = "init"
          /\ init
     ELSE /\ timers' = TimersAfterWait(FALSE, pending)
          /\ phase' = "waiting"
          /\ lastStep' = "wait"
          /\ UNCHANGED <<alt1Api, initCalls, checkboxes, resetListeners, frames,
                         completedSkills, canvasSize, canvas, pass, chatWindow>>

\* The DOMContentLoaded listener: the first call of waitForAlt1.
DOMContentLoaded ==
  /\ phase = "loading"
  /\ MicrotaskQueueEmpty
  /\ waitForAlt1(timers)
  /\ UNCHANGED <<variant, windowAlt1>>
  /\ UNCHANGED mainVars

\* A 500 ms timer expires.
TimerFires ==
  /\ timers > 0
  /\ MicrotaskQueueEmpty
  /\ waitForAlt1(timers - 1)
  /\ UNCHANGED <<variant, windowAlt1>>
  /\ UNCHANGED mainVars

\* The host injects window.alt1.
HostInject ==
  /\ ~windowAlt1.defined
  /\ MicrotaskQueueEmpty
  /\ \E props \in SUBSET HostProps : windowAlt1' = HostObject(props)
  /\ UNCHANGED <<variant, phase, timers, alt1Api, initCalls, checkboxes, resetListeners,
                 completedSkills, canvasSize, canvas, pass, frames, chatWindow,
                 lastStep, prevCompleted>>
  /\ UNCHANGED mainVars

\* The host adds a property to the injected object.
HostExtend ==
  /\ windowAlt1.defined
  /\ MicrotaskQueueEmpty
  /\ \E prop \in HostProps \ windowAlt1.props :
        windowAlt1' = HostObject(windowAlt1.props \cup { prop })
  /\ UNCHANGED <<variant, phase, timers, alt1Api, initCalls, checkboxes, resetListeners,
                 completedSkills, canvasSize, canvas, pass, frames, chatWindow,
                 lastStep, prevCompleted>>
  /\ UNCHANGED mainVars

\* The user changes a checkbox of the sidebar: the browser flips it and the
\* change listener of buildCheckboxUI calls onToggle(skill, checkbox.checked).
CheckboxChange ==
  /\ MicrotaskQueueEmpty
  /\ \E skill \in InputSkills :
       /\ ChkId(skill) \in DOMAIN checkboxes
       /\ LET isChecked == ~checkboxes[ChkId(skill)]
              flipped == [checkboxes EXCEPT ![ChkId(skill)] = isChecked]
              st == onCheckboxToggle([completed |-> completedSkills, boxes |-> flipped],
                                     skill, isChecked)
          IN  /\ completedSkills' = st.completed
              /\ checkboxes' = st.boxes
  /\ lastStep' = "change"
  /\ prevCompleted' = completedSkills
  /\ UNCHANGED <<variant, windowAlt1, phase, timers, alt1Api, initCalls, resetListeners,
                 canvasSize, canvas, pass, frames, chatWindow>>
  /\ UNCHANGED mainVars

\* The user clicks "Reset All": every click listener of the button runs.
ResetClick ==
  /\ MicrotaskQueueEmpty
  /\ LET st == IF resetListeners > 0
               THEN resetHandler([completed |-> completedSkills, boxes |-> checkboxes])
               ELSE [completed |-> completedSkills, boxes |-> checkboxes]
     IN  /\ completedSkills' = st.completed
         /\ checkboxes' = st.boxes
  /\ lastStep' = "reset"
  /\ prevCompleted' = completedSkills
  /\ UNCHANGED <<variant, windowAlt1, phase, timers, alt1Api, initCalls, resetListeners,
                 canvasSize, canvas, pass, frames, chatWindow>>
  /\ UNCHANGED mainVars

\* mainLoop(), when the host reports the window size `size` and the chat
\* window `window`.  A TypeError of step a) or b) ends the callback: nothing
\* after it runs and no further frame is requested.
mainLoop(size, window) ==
  LET resized == IF canvasSize # size THEN {} ELSE canvas
      st == pollChatboxForJoT(completedSkills, checkboxes, window)
  IN
  /\ prevCompleted' = completedSkills
  /\ IF ~CanReadSize(variant, windowAlt1)
     THEN \* a) throws
          /\ frames' = frames - 1
          /\ lastStep' = "mainLoopThrew"
          /\ UNCHANGED <<completedSkills, checkboxes, canvasSize, canvas, pass, chatWindow>>
     ELSE IF ~Has(windowAlt1, "chatbox")
     THEN \* a) resizes, b) throws
          /\ canvasSize' = size
          /\ canvas' = resized
          /\ frames' = frames - 1
          /\ lastStep' = "mainLoopThrew"
          /\ UNCHANGED <<completedSkills, checkboxes, pass, chatWindow>>
     ELSE \* a) resize, b) poll, c) start the highlight pass, d) request a frame
          /\ canvasSize' = size
          /\ completedSkills' = st.completed
          /\ checkboxes' = st.boxes
          /\ canvas' = clearRect(resized)
          /\ pass' = NextOfPass(st.completed, 0)
          /\ frames' = IF CanScheduleFrame(variant, windowAlt1) THEN frames ELSE frames - 1
          /\ lastStep' = "mainLoop"
          /\ UNCHANGED chatWindow

\* A requested animation frame arrives.
Frame ==
  /\ frames > 0
  /\ MicrotaskQueueEmpty
  /\ \E size \in Dims, window \in FrameWindows : mainLoop(size, window)
  /\ UNCHANGED <<variant, windowAlt1, phase, timers, alt1Api, initCalls, resetListeners>>
  /\ UNCHANGED mainVars

\* The continuation of highlightCompletedSkills after an await: the rectangle
\* of the awaited skill is stroked and the loop goes on.
HighlightResume ==
  /\ pass.active
  /\ canvas' = strokeIfVisible(canvas, findSkillIconPosition(pass.skill))
  /\ pass' = NextOfPass(completedSkills, pass.idx)
  /\ lastStep' = "highlight"
  /\ prevCompleted' = completedSkills
  /\ UNCHANGED <<variant, windowAlt1, phase, timers, alt1Api, initCalls, checkboxes,
                 resetListeners, completedSkills, canvasSize, frames, chatWindow>>
  /\ UNCHANGED mainVars

-----------------------------------------------------------------------------
\* The polling variants from page load.

Variants == { "A", "B", "C" }

\* src/src/main.ts before its page is loaded.
MainIdle ==
  /\ mAlt1 = [defined |-> FALSE, rsLinked |-> "undefined", clearBinds |-> FALSE]
  /\ overlayApi = FALSE
  /\ mpc = "start"
  /\ mIdx = 0
  /\ templates = << >>
  /\ binds = {}
  /\ renderCalls = 0
  /\ loopFrames = 0
  /\ findPending = 0
  /\ overlayCalls = 0
  /\ skillMap = << >>
  /\ doneSkills = {}
  /\ localStorage = << >>
  /\ manualBoxes = << >>
  /\ mLast = "load"

\* A polling variant before DOMContentLoaded.
PollLoad ==
  /\ windowAlt1 = Undefined
  /\ phase = "loading"
  /\ timers = 0
  /\ alt1Api = "null"
  /\ initCalls = 0
  /\ checkboxes = << >>
  /\ resetListeners = 0
  /\ completedSkills = << >>
  /\ canvasSize = << 300, 150 >>
  /\ canvas = {}
  /\ pass = Idle
  /\ frames = 0
  /\ chatWindow = NoWindow
  /\ lastStep = "load"
  /\ prevCompleted = << >>

Init ==
  /\ MainIdle
  /\ variant \in Variants
  /\ PollLoad

Next ==
  \/ DOMContentLoaded
  \/ TimerFires
  \/ HostInject
  \/ HostExtend
  \/ CheckboxChange
  \/ ResetClick
  \/ Frame
  \/ HighlightResume

Spec == Init /\ [][Next]_vars

-----------------------------------------------------------------------------
\* Properties of the polling variants (specification Spec).

RectsOf(skills) == { findSkillIconPosition(skills[i]) : i \in DOMAIN skills }

AllChkIds == { ChkIdOf[s] : s \in SkillSet }

\* What holds in the two states of the wait loop.
WaitStates ==
  /\ timers \in 0..1
  /\ initCalls \in 0..1
  /\ phase \in { "loading", "waiting", "running" }
  /\ phase = "loading" => timers = 0 /\ initCalls = 0
  /\ phase = "waiting" => timers = 1 /\ initCalls = 0
  /\ phase = "running" => timers = 0 /\ initCalls = 1 /\ alt1Api = "window.alt1"
  /\ phase # "running" =>
       /\ alt1Api = "null"
       /\ frames = 0
       /\ ~pass.active
       /\ completedSkills = << >>
       /\ checkboxes = << >>
       /\ canvas = {}
       /\ lastStep \notin { "mainLoop", "mainLoopThrew", "highlight", "change" }

\* What every step of the wait loop does.
WaitSteps ==
  /\ phase = "running" => phase' = "running"
  /\ phase = "waiting" => phase' \in { "waiting", "running" }
  /\ (DOMContentLoaded \/ TimerFires) =>
        IF Detect(variant, windowAlt1)
        THEN initCalls' = initCalls + 1 /\ phase' = "running" /\ timers' = 0
        ELSE initCalls' = initCalls /\ phase' = "waiting" /\ timers' = 1
  /\ initCalls' # initCalls =>
        (DOMContentLoaded \/ TimerFires) /\ Detect(variant, windowAlt1) /\ initCalls = 0
  /\ completedSkills' # completedSkills \/ canvas' # canvas => phase = "running"

\* C2: each polling variant is a two-state machine waiting -> running:
\* waitForAlt1 keeps exactly one timer pending while its test is false, calls
\* init() the first time the test is true and sets no timer afterwards; init()
\* runs at most once, running never goes back to waiting, and nothing polls
\* the chat, changes completedSkills or draws on the canvas before init().
C2_TwoStateMachine == [](WaitStates) /\ [][WaitSteps]_vars

\* C2 witness: a variant that kept its timer pending and then started running.
C2_Witness ==
  /\ phase = "running" /\ initCalls = 1 /\ timers = 0 /\ frames = 1
  /\ lastStep = "init"

\* C4: right after a click on "Reset All", completedSkills is empty and every
\* checkbox of the sidebar is unchecked.
C4_ResetClearsAll ==
  lastStep = "reset" =>
    /\ completedSkills = << >>
    /\ \A id \in DOMAIN checkboxes : ~checkboxes[id]

\* C4 witness: a reset click that found completed skills and a built sidebar.
C4_Witness ==
  /\ lastStep = "reset"
  /\ prevCompleted # << >>
  /\ DOMAIN checkboxes = AllChkIds
  /\ canvas # {}

\* C5: after every handler, each skill's checkbox is checked iff the skill is
\* in completedSkills; init() builds one checkbox per skill.
C5_SidebarMatchesSet ==
  /\ initCalls > 0 => DOMAIN checkboxes = AllChkIds
  /\ \A id \in DOMAIN checkboxes :
        checkboxes[id] <=> SetHas(completedSkills, SkillOfChk[id])

\* C5 witness: a frame whose chat poll added a skill, with its checkbox checked.
C5_Witness ==
  /\ lastStep = "mainLoop"
  /\ Len(completedSkills) > Len(prevCompleted)
  /\ \E s \in InputSkills : SetHas(completedSkills, s) /\ ~SetHas(prevCompleted, s)
                              /\ checkboxes[ChkIdOf[s]]

\* C7: when the highlight pass of a frame has finished, the canvas holds
\* exactly the rectangles of the skills in completedSkills, one each; while the
\* pass is suspended the canvas holds the rectangles of the entries it has
\* passed, and the skill it is about to draw is in completedSkills.
C7_CanvasMatchesSet ==
  /\ (lastStep \in { "mainLoop", "highlight" } /\ ~pass.active) =>
        /\ canvas = RectsOf(completedSkills)
        /\ Cardinality(canvas) = Len(completedSkills)
  /\ pass.active =>
        /\ lastStep \in { "mainLoop", "highlight" }
        /\ pass.idx \in 1..Len(completedSkills)
        /\ pass.skill = completedSkills[pass.idx]
        /\ canvas = RectsOf(SubSeq(completedSkills, 1, pass.idx - 1))

\* C7 witness: a pass that finished after suspending twice.
C7_Witness ==
  /\ lastStep = "highlight"
  /\ ~pass.active
  /\ Len(completedSkills) >= 2
  /\ Cardinality(canvas) >= 2

\* C8: init() is called, and alt1Api assigned, only when window.alt1 exists
\* and window.alt1.requestAnimationFrame is a function.
C8_InitOnlyWithRaf ==
  (initCalls > 0 \/ alt1Api # "null") => Has(windowAlt1, "requestAnimationFrame")

\* The polling variants with the scheduling the browser guarantees: the
\* DOMContentLoaded event is delivered, and a timer set with setTimeout fires.
\* The host gives no such guarantee: it may never inject window.alt1.
LiveSpec == Spec /\ WF_vars(DOMContentLoaded) /\ WF_vars(TimerFires)

\* The host object passes the test of the variant's waitForAlt1.  The host
\* only adds to window.alt1, so once available it stays available.
HostAvailable == Detect(variant, windowAlt1)

\* C11: in every polling variant, once the host object is available the script
\* eventually calls init() and is running, and the running state init() leaves
\* has a frame callback scheduled; if the host never becomes available the
\* script ends up waiting forever with exactly one timer pending.
C11_AvailableHostLeadsToRunning ==
  /\ HostAvailable ~> (phase = "running" /\ initCalls = 1)
  /\ [](lastStep = "init" => phase = "running" /\ frames = 1)
  /\ ([]~HostAvailable) => <>[](phase = "waiting" /\ timers = 1)

\* What the code keeps of C11: init() is reached in every variant, and a frame
\* callback is scheduled by it in the variants A and C.
AvailableHostLeadsToInit ==
  /\ HostAvailable ~> (phase = "running" /\ initCalls = 1)
  /\ [](lastStep = "init" /\ variant # "B" => phase = "running" /\ frames = 1)
  /\ ([]~HostAvailable) => <>[](phase = "waiting" /\ timers = 1)

-----------------------------------------------------------------------------
\* pollChatboxForJoT alone (specification PollSpec): one call, from every set
\* of completed input skills and on every chat window.

\* The sequences that list a subset of the input skills in the order of SKILLS.
RECURSIVE ListOf(_, _)
ListOf(S, i) ==
  IF i > Len(SKILLS) THEN << >>
  ELSE IF SKILLS[i] \in S THEN << SKILLS[i] >> \o ListOf(S, i + 1)
  ELSE ListOf(S, i + 1)

PollInit ==
  /\ MainIdle
  /\ variant = "A"
  /\ windowAlt1 = HostObject(HostProps)
  /\ phase = "running"
  /\ timers = 0
  /\ alt1Api = "window.alt1"
  /\ initCalls = 1
  /\ \E S \in SUBSET InputSkills : completedSkills = ListOf(S, 1)
  /\ checkboxes = buildCheckboxUI(SKILLS, completedSkills)
  /\ resetListeners = 1
  /\ canvasSize = << 300, 150 >>
  /\ canvas = {}
  /\ pass = Idle
  /\ frames = 1
  /\ chatWindow \in ChatWindows
  /\ lastStep = "init"
  /\ prevCompleted = completedSkills

\* Step b) of mainLoop on the window chatWindow.
PollOnce ==
  /\ lastStep = "init"
  /\ LET st == pollChatboxForJoT(completedSkills, checkboxes, chatWindow)
     IN  /\ completedSkills' = st.completed
         /\ checkboxes' = st.boxes
  /\ prevCompleted' = completedSkills
  /\ lastStep' = "poll"
  /\ UNCHANGED <<variant, windowAlt1, phase, timers, alt1Api, initCalls, resetListeners,
                 canvasSize, canvas, pass, frames, chatWindow>>
  /\ UNCHANGED mainVars

PollNext == PollOnce

PollSpec == PollInit /\ [][PollNext]_vars

\* The name in the first Jack of Trades message of each line of the model, read
\* off the line's text by hand, not by jotRegex.
MessageName ==
  [ k \in LineKeys |->
      CASE k \in { "none", "empty", "nototal" } -> {}
        [] k = "other" -> { "Runecraft" }
        [] OTHER -> { k } ]

\* The names the lines 0..4 of a window carry.
WindowNames(window) == UNION { MessageName[window[i]] : i \in 1..PollLines }

\* C3: one call of pollChatboxForJoT only adds to completedSkills; a skill that
\* was not completed is completed afterwards iff one of the lines 0..4 matches
\* jotRegex with that name and the name is in SKILLS; with no such line the Set
\* is unchanged; completedSkills stays within SKILLS.
C3_PollAddsMatchedSkills ==
  lastStep = "poll" =>
    /\ \A i \in DOMAIN prevCompleted : prevCompleted[i] = completedSkills[i]
    /\ Len(prevCompleted) <= Len(completedSkills)
    /\ \A s \in SkillSet \cup WindowNames(chatWindow) \cup Range(completedSkills) :
         ~SetHas(prevCompleted, s) =>
           ( SetHas(completedSkills, s) <=>
               (s \in WindowNames(chatWindow) /\ s \in SkillSet) )
    /\ (WindowNames(chatWindow) \cap SkillSet) \subseteq Range(prevCompleted)
          => completedSkills = prevCompleted
    /\ Range(completedSkills) \subseteq SkillSet
    /\ Cardinality(Range(completedSkills)) = Len(completedSkills)

\* C3 witness: a poll of a window that holds a message for an uncompleted skill,
\* a message for a completed skill, a message naming no skill of SKILLS and a
\* line without match.
C3_Witness ==
  /\ lastStep = "poll"
  /\ chatWindow[1] = "other"
  /\ chatWindow[2] = "nototal"
  /\ chatWindow[3] = SKILLS[2] /\ ~SetHas(prevCompleted, SKILLS[2])
  /\ chatWindow[4] = SKILLS[1] /\ SetHas(prevCompleted, SKILLS[1])
  /\ chatWindow[5] = "none"
  /\ completedSkills = Append(prevCompleted, SKILLS[2])

-----------------------------------------------------------------------------
\* src/src/main.ts: the template-matching script and its manual tracker.

skillNames ==
  << "Attack", "Constitution", "Mining", "Strength", "Agility", "Smithing",
     "Defence", "Herblore", "Fishing", "Ranged", "Thieving", "Cooking", "Prayer",
     "Crafting", "Firemaking", "Magic", "Fletching", "Woodcutting", "Runecraft",
     "Slayer", "Farming", "Construction", "Hunter", "Summoning", "Dungeoneering",
     "Divination", "Invention", "Necromancy", "Archaeology" >>

MainInputSkills == { skillNames[i] : i \in 1..NumMainSkills }

\* The template literals of renderManualTracker are written with the character
\* U+2010 (HYPHEN), not with "-" (U+002D); "\\u2010" stands for that character.
\* localStorage key of a skill
ManualKey(name) == "jot\\u2010manual\\u2010" \o name
\* id of the checkbox of a skill
ManualChkId(name) == "chk\\u2010" \o name

ManualKeyOf == [ n \in Range(skillNames) |-> ManualKey(n) ]
ManualChkIdOf == [ n \in Range(skillNames) |-> ManualChkId(n) ]
ManualNameOfChk == [ id \in { ManualChkIdOf[n] : n \in Range(skillNames) } |->
                       CHOOSE n \in Range(skillNames) : ManualChkIdOf[n] = id ]

\* The key the comment above renderManualTracker documents:
\* "jot-manual-<SkillName>", written with "-".
DocumentedKey(name) == "jot-manual-" \o name

\* localStorage.getItem(key): << >> for null, else the one-element tuple of the value.
getItem(storage, key) == IF key \in DOMAIN storage THEN << storage[key] >> ELSE << >>
\* localStorage.setItem(key, value)
setItem(storage, key, value) ==
  [ k \in DOMAIN storage \cup { key } |-> IF k = key THEN value ELSE storage[k] ]
\* localStorage.removeItem(key)
removeItem(storage, key) == [ k \in DOMAIN storage \ { key } |-> storage[k] ]

\* Boolean.prototype.toString
BoolToString(b) == IF b THEN "true" ELSE "false"

\* renderManualTracker(): the body is emptied and one checkbox per skill is
\* created, checked iff the saved value is the string "true".
renderManualTracker(storage) ==
  [ id \in { ManualChkIdOf[skillNames[i]] : i \in DOMAIN skillNames } |->
      getItem(storage, ManualKeyOf[ManualNameOfChk[id]]) = << "true" >> ]

\* The change listener of the checkbox of `name`, after the browser set the
\* checkbox to `checked`.
manualChangeListener(storage, name, checked) ==
  setItem(storage, ManualKeyOf[name], BoolToString(checked))

\* The click listener of "Reset All" on st = [storage, boxes].
RECURSIVE manualResetFrom(_, _)
manualResetFrom(st, i) ==
  IF i > Len(skillNames) THEN st
  ELSE LET n == skillNames[i]
           id == ManualChkIdOf[n]
       IN  manualResetFrom(
             [storage |-> removeItem(st.storage, ManualKeyOf[n]),
              boxes |-> IF id \in DOMAIN st.boxes
                        THEN [st.boxes EXCEPT ![id] = FALSE] ELSE st.boxes],
             i + 1)

manualResetListener(st) == manualResetFrom(st, 1)

-----------------------------------------------------------------------------
\* The startup function of src/src/main.ts.

NoAlt1 == [defined |-> FALSE, rsLinked |-> "undefined", clearBinds |-> FALSE]

\* window.alt1 at page load: absent, or an object whose rsLinked is true, false
\* or no boolean, with or without a clearBinds function.
Alt1Shapes ==
  { NoAlt1 } \cup
  { [defined |-> TRUE, rsLinked |-> l, clearBinds |-> c] :
      l \in { "undefined", "true", "false" }, c \in BOOLEAN }

\* The two ifs that open the startup function: which fallback is taken, or "ok".
StartupGate(alt1) ==
  IF ~alt1.defined \/ alt1.rsLinked \notin { "true", "false" } THEN "noAlt1"
  ELSE IF alt1.rsLinked = "false" THEN "notLinked"
  ELSE "ok"

\* Mutant of ChatUiMissing: only the result of find is tested.
ChatUiMissingNoPos(outcome) == outcome = "null"

\* if (!initData || !chatbox.pos || !chatbox.pos.mainbox), after a find that
\* did not throw
ChatUiMissing(outcome) == outcome \in { "null", "noMainbox" }

\* window.alt1.clearBinds?.()
clearBinds(alt1, held) == IF alt1.clearBinds THEN {} ELSE held

\* A fallback branch: renderManualTracker(); return;
Fallback ==
  /\ renderCalls' = renderCalls + 1
  /\ manualBoxes' = renderManualTracker(localStorage)
  /\ mpc' = "fallback"
  /\ UNCHANGED <<mAlt1, overlayApi, mIdx, templates, binds, loopFrames, findPending,
                 overlayCalls, skillMap, doneSkills, localStorage>>

\* What the startup function finds in window.alt1.
StartupEvent(alt1) ==
  IF ~alt1.defined THEN "startup: no alt1"
  ELSE IF alt1.rsLinked = "undefined" THEN "startup: rsLinked no boolean"
  ELSE IF alt1.rsLinked = "false" THEN "startup: not linked"
  ELSE "startup: linked"

\* The startup function up to its first await.
Startup ==
  /\ mpc = "start"
  /\ mLast' = StartupEvent(mAlt1)
  /\ IF StartupGate(mAlt1) # "ok" THEN Fallback
     ELSE /\ mpc' = "bindFull"
          /\ UNCHANGED <<mAlt1, overlayApi, mIdx, templates, binds, renderCalls,
                         loopFrames, findPending, overlayCalls, skillMap, doneSkills,
                         localStorage, manualBoxes>>
  /\ UNCHANGED pollVars

\* Step 2: bindRegion of the full window resolves or rejects.
BindFullSettles ==
  /\ mpc = "bindFull"
  /\ \E ok \in BOOLEAN :
       /\ mLast' = IF ok THEN "bindFull resolved" ELSE "bindFull failed"
       /\ IF ~ok THEN Fallback
          ELSE /\ binds' = binds \cup { "full" }
               /\ mpc' = "readFull"
               /\ UNCHANGED <<mAlt1, overlayApi, mIdx, templates, renderCalls, loopFrames,
                              findPending, overlayCalls, skillMap, doneSkills,
                              localStorage, manualBoxes>>
  /\ UNCHANGED pollVars

\* Step 3: fullImgRef.read returns or throws.
ReadFullSettles ==
  /\ mpc = "readFull"
  /\ \E ok \in BOOLEAN :
       /\ mLast' = IF ok THEN "readFull resolved" ELSE "readFull failed"
       /\ IF ~ok THEN Fallback
          ELSE /\ mpc' = "findChat"
               /\ UNCHANGED <<mAlt1, overlayApi, mIdx, templates, binds, renderCalls,
                              loopFrames, findPending, overlayCalls, skillMap, doneSkills,
                              localStorage, manualBoxes>>
  /\ UNCHANGED pollVars

\* Step 4: chatbox.find throws, returns nothing, leaves chatbox.pos.mainbox
\* unset, or locates the chat box; then steps 5 to 7 up to the await of the
\* second bindRegion.
FindChatSettles ==
  /\ mpc = "findChat"
  /\ \E outcome \in { "throws", "null", "noMainbox", "found" } :
       /\ mLast' = "findChat " \o outcome
       /\ IF outcome = "throws" THEN Fallback
          ELSE IF ChatUiMissing(outcome) THEN Fallback
          ELSE /\ binds' = clearBinds(mAlt1, binds)
               /\ mpc' = "bindChat"
               /\ UNCHANGED <<mAlt1, overlayApi, mIdx, templates, renderCalls, loopFrames,
                              findPending, overlayCalls, skillMap, doneSkills,
                              localStorage, manualBoxes>>
  /\ UNCHANGED pollVars

\* Step 7: bindRegion of the chat strip resolves or rejects; then step 8 starts
\* loading the first icon.
BindChatSettles ==
  /\ mpc = "bindChat"
  /\ \E ok \in BOOLEAN :
       /\ mLast' = IF ok THEN "bindChat resolved" ELSE "bindChat failed"
       /\ IF ~ok THEN Fallback
          ELSE /\ binds' = binds \cup { "chat" }
               /\ mpc' = "loadIcon"
               /\ mIdx' = 1
               /\ UNCHANGED <<mAlt1, overlayApi, templates, renderCalls, loopFrames,
                              findPending, overlayCalls, skillMap, doneSkills,
                              localStorage, manualBoxes>>
  /\ UNCHANGED pollVars

\* Step 8: the icon of skillNames[mIdx] loads, or fails to load; the rejected
\* promise of a failed load is awaited outside any try, so the startup function
\* ends there.  After the last icon, step 9 calls findSubimage for the first
\* template.
IconSettles ==
  /\ mpc = "loadIcon"
  /\ \E ok \in BOOLEAN :
       IF ~ok
       THEN /\ mpc' = "crashed"
            /\ mLast' = "iconError"
            /\ UNCHANGED <<mIdx, templates>>
       ELSE /\ templates' = Append(templates, skillNames[mIdx])
            /\ mLast' = "icon ok"
            /\ IF mIdx < Len(skillNames)
               THEN mIdx' = mIdx + 1 /\ mpc' = "loadIcon"
               ELSE mIdx' = 1 /\ mpc' = "matchIcon"
  /\ UNCHANGED <<mAlt1, overlayApi, binds, renderCalls, loopFrames, findPending,
                 overlayCalls, skillMap, doneSkills, localStorage, manualBoxes>>
  /\ UNCHANGED pollVars

\* The corner of the game window (rsX, rsY) and the place of a hit inside it.
RsOrigin == [x |-> 100, y |-> 50]
HitPoint == [x |-> 40, y |-> 60]

\* skillMap[name] = { x: rsX + hits[0].x, y: rsY + hits[0].y }
withHit(map, name, hit) ==
  [ n \in DOMAIN map \cup { name } |->
      IF n = name THEN [x |-> RsOrigin.x + hit.x, y |-> RsOrigin.y + hit.y] ELSE map[n] ]

\* Step 9: findSubimage for templates[mIdx] returns hits, returns none, or
\* throws (caught per skill).  After the last template the loop is requested.
MatchSettles ==
  /\ mpc = "matchIcon"
  /\ \E outcome \in { "hit", "nohit", "throws" } :
       /\ outcome = "hit" => templates[mIdx] \in MainInputSkills
       /\ skillMap' = IF outcome = "hit" THEN withHit(skillMap, templates[mIdx], HitPoint)
                      ELSE skillMap
       /\ mLast' = "match " \o outcome
  /\ IF mIdx < Len(templates)
     THEN /\ mIdx' = mIdx + 1
          /\ UNCHANGED <<mpc, doneSkills, loopFrames>>
     ELSE /\ mpc' = "looping"
          /\ doneSkills' = {}
          /\ loopFrames' = loopFrames + 1
          /\ UNCHANGED mIdx
  /\ UNCHANGED <<mAlt1, overlayApi, templates, binds, renderCalls, findPending,
                 overlayCalls, localStorage, manualBoxes>>
  /\ UNCHANGED pollVars

-----------------------------------------------------------------------------
\* The regular expression of loop():
\*   /You\s+gain\s+experience\s+in\s+(\w+)\s+and\s+have\s+now\s+completed/

\* \s: the 25 code units a regular expression without the u flag takes for
\* white space.  A code unit outside printable ASCII is written as its escape.
Spaces ==
  { "\t", "\n", "\\u000B", "\f", "\r", " ", "\\u00A0", "\\u1680",
    "\\u2000", "\\u2001", "\\u2002", "\\u2003", "\\u2004", "\\u2005",
    "\\u2006", "\\u2007", "\\u2008", "\\u2009", "\\u200A",
    "\\u2028", "\\u2029", "\\u202F", "\\u205F", "\\u3000", "\\uFEFF" }
\* \w
WordChars == Letters \cup Digits \cup { "_" }

HeadWords ==
  << <<"Y","o","u">>, <<"g","a","i","n">>,
     <<"e","x","p","e","r","i","e","n","c","e">>, <<"i","n">> >>
TailWords ==
  << <<"a","n","d">>, <<"h","a","v","e">>, <<"n","o","w">>,
     <<"c","o","m","p","l","e","t","e","d">> >>

\* The positions right after a match of words[k], \s+, words[k+1], ... that
\* begins at p.
RECURSIVE WordsEnds(_, _, _, _)
WordsEnds(text, p, words, k) ==
  IF ~LitAt(text, p, words[k]) THEN {}
  ELSE LET q == p + Len(words[k]) IN
       IF k = Len(words) THEN { q }
       ELSE UNION { WordsEnds(text, q + n, words, k + 1) :
                      n \in 1..RunLen(text, q, Spaces) }

\* The <<start, length>> of group 1 in the matches that begin at p.
MainGroups(text, p) ==
  UNION { UNION { { << e + s1, n >> :
                      n \in { m \in 1..RunLen(text, e + s1, WordChars) :
                                \E s2 \in 1..RunLen(text, e + s1 + m, Spaces) :
                                  WordsEnds(text, e + s1 + m + s2, TailWords, 1) # {} } } :
                  s1 \in 1..RunLen(text, e, Spaces) } :
          e \in WordsEnds(text, p, HeadWords, 1) }

\* token.match(regex): group 1 of the leftmost match, the quantifiers greedy.
MainExec(text) ==
  LET starts == { p \in 1..Len(text) : MainGroups(text, p) # {} } IN
  IF starts = {} THEN NoMatch
  ELSE LET gs == MainGroups(text, Min(starts))
           st == Max({ g[1] : g \in gs })
           n == Max({ g[2] : g \in { h \in gs : h[1] = st } })
       IN  MatchOf(Join(SubSeq(text, st, st + n - 1)))

\* The tokens of the model: a single word, a value that is no string, for
\* each input skill "You  gain experience in <name> and have now completed 7/15",
\* the same message with a line break and a no-break space for white space, and
\* the message that names "constructor" in place of a skill.
TokenKeys == { "word", "notString", "lineBreaks", "constructor" } \cup MainInputSkills

MessageWith(sp1, sp2, name) ==
  <<"Y","o","u", sp1, sp2, "g","a","i","n"," ">> \o HeadWords[3] \o << "\t" >> \o
  HeadWords[4] \o << " " >> \o name \o << " " >> \o TailWords[1] \o << " " >> \o
  TailWords[2] \o << " " >> \o TailWords[3] \o << " " >> \o TailWords[4] \o
  << " ", "7", "/", "1", "5" >>

MainMessage(name) == MessageWith(" ", " ", name)

TokenText ==
  [ k \in TokenKeys \ { "notString" } |->
      CASE k = "word" -> HeadWords[1]
        [] k = "lineBreaks" -> MessageWith("\n", "\\u00A0", Spell[skillNames[1]])
        [] k = "constructor" ->
             MainMessage(<<"c","o","n","s","t","r","u","c","t","o","r">>)
        [] OTHER -> MainMessage(Spell[k]) ]

MainExecMemo == [ k \in DOMAIN TokenText |-> MainExec(TokenText[k]) ]

\* What chatbox.find settles with in loop(): a rejection, null, an object
\* without a rawWords array, or an object with rawWords.
FindResults ==
  { [kind |-> "reject", rawWords |-> << >>],
    [kind |-> "null", rawWords |-> << >>],
    [kind |-> "noWords", rawWords |-> << >>] }
  \cup { [kind |-> "words", rawWords |-> ws] :
           ws \in UNION { [1..n -> TokenKeys] : n \in 0..MaxTokens } }

\* The names every object inherits from Object.prototype (all of them \w+).
ObjectPrototypeProps ==
  { "constructor", "toString", "toLocaleString", "valueOf", "hasOwnProperty",
    "isPrototypeOf", "propertyIsEnumerable", "__proto__", "__defineGetter__",
    "__defineSetter__", "__lookupGetter__", "__lookupSetter__" }

\* skillMap[skillName] taken as a condition: skillMap is a plain object, so the
\* value is an {x, y} record for a key step 9 stored, a function (or
\* Object.prototype) for an inherited name, and undefined otherwise.
Truthy(map, name) == name \in DOMAIN map \/ name \in ObjectPrototypeProps

\* The body of the for loop over rawWords for one token, on
\* h = [done, calls, threw]: a token that is no string makes token.match throw;
\* the four overlay calls throw at the first one when the overlay object is
\* missing, after doneSkills.add.  For an inherited name the x and y taken
\* from skillMap[skillName] are undefined and the calls are made all the same.
HandleToken(h, token, map, hasOverlay) ==
  IF h.threw THEN h
  ELSE IF token = "notString" THEN [h EXCEPT !.threw = TRUE]
  ELSE LET m == MainExecMemo[token] IN
       IF m = NoMatch THEN h
       ELSE LET skillName == m[1] IN
            IF skillName \notin h.done /\ Truthy(map, skillName)
            THEN IF hasOverlay
                 THEN [done |-> h.done \cup { skillName }, calls |-> h.calls + 4,
                       threw |-> FALSE]
                 ELSE [done |-> h.done \cup { skillName }, calls |-> h.calls,
                       threw |-> TRUE]
            ELSE h

RECURSIVE HandleTokens(_, _, _, _, _)
HandleTokens(h, words, i, map, hasOverlay) ==
  IF i > Len(words) THEN h
  ELSE HandleTokens(HandleToken(h, words[i], map, hasOverlay), words, i + 1, map,
                    hasOverlay)

\* The .then handler up to its last statement.
thenHandler(result, done, calls, map, hasOverlay) ==
  IF result.kind = "words"
  THEN HandleTokens([done |-> done, calls |-> calls, threw |-> FALSE],
                    result.rawWords, 1, map, hasOverlay)
  ELSE [done |-> done, calls |-> calls, threw |-> FALSE]

\* window.requestAnimationFrame(loop) as the last statement of the .then
\* handler: reached when the handler ran and did not throw.
ThenRaf(ran, threw) == IF ran /\ ~threw THEN 1 ELSE 0
\* window.requestAnimationFrame(loop) in the .catch handler, which runs when
\* find rejected or the .then handler threw.
CatchRaf(caught) == IF caught THEN 1 ELSE 0

\* What the two host calls of loop() do, which are outside every try:
\* chatImgRef.read throws, chatbox.find throws, chatbox.find returns a value
\* without .then (null), or chatbox.find returns a promise.
LoopCalls == { "readThrows", "findThrows", "findNoPromise", "findPromise" }

\* The promises loop() leaves pending: with a promise the .then and .catch
\* handlers are attached, otherwise loop() throws before they are.
PendingAfterLoop(call, pending) == IF call = "findPromise" THEN pending + 1 ELSE pending

\* A requested frame arrives: loop() reads the chat strip and calls
\* chatbox.find.
LoopFrame ==
  /\ mpc = "looping"
  /\ loopFrames > 0
  /\ loopFrames' = loopFrames - 1
  /\ \E call \in LoopCalls : findPending' = PendingAfterLoop(call, findPending)
  /\ mLast' = "loop"
  /\ UNCHANGED <<mAlt1, overlayApi, mpc, mIdx, templates, binds, renderCalls,
                 overlayCalls, skillMap, doneSkills, localStorage, manualBoxes>>
  /\ UNCHANGED pollVars

\* The promise of chatbox.find settles and the handlers run.
FindSettles ==
  /\ mpc = "looping"
  /\ findPending > 0
  /\ \E result \in FindResults :
       LET ran == result.kind # "reject"
           h == IF ran THEN thenHandler(result, doneSkills, overlayCalls, skillMap, overlayApi)
                ELSE [done |-> doneSkills, calls |-> overlayCalls, threw |-> FALSE]
       IN  /\ doneSkills' = h.done
           /\ overlayCalls' = h.calls
           /\ loopFrames' = loopFrames + ThenRaf(ran, h.threw) + CatchRaf(~ran \/ h.threw)
           /\ mLast' = IF ~ran THEN "findRejected"
                       ELSE IF h.threw THEN "handlerThrew" ELSE "findResolved"
  /\ findPending' = findPending - 1
  /\ UNCHANGED <<mAlt1, overlayApi, mpc, mIdx, templates, binds, renderCalls, skillMap,
                 localStorage, manualBoxes>>
  /\ UNCHANGED pollVars

-----------------------------------------------------------------------------
\* The manual tracker and page reloads.

\* The user changes the checkbox of a skill.
ManualChange ==
  /\ \E name \in MainInputSkills :
       /\ ManualChkIdOf[name] \in DOMAIN manualBoxes
       /\ LET checked == ~manualBoxes[ManualChkIdOf[name]] IN
          /\ manualBoxes' = [manualBoxes EXCEPT ![ManualChkIdOf[name]] = checked]
          /\ localStorage' = manualChangeListener(localStorage, name, checked)
  /\ mLast' = "manualChange"
  /\ UNCHANGED <<mAlt1, overlayApi, mpc, mIdx, templates, binds, renderCalls, loopFrames,
                 findPending, overlayCalls, skillMap, doneSkills>>
  /\ UNCHANGED pollVars

\* The user clicks "Reset All" of the manual tracker.
ManualReset ==
  /\ manualBoxes # << >>
  /\ LET st == manualResetListener([storage |-> localStorage, boxes |-> manualBoxes])
     IN  localStorage' = st.storage /\ manualBoxes' = st.boxes
  /\ mLast' = "manualReset"
  /\ UNCHANGED <<mAlt1, overlayApi, mpc, mIdx, templates, binds, renderCalls, loopFrames,
                 findPending, overlayCalls, skillMap, doneSkills>>
  /\ UNCHANGED pollVars

\* The page is loaded again: everything but localStorage starts afresh.
Reload ==
  /\ mpc # "start"
  /\ mAlt1' \in Alt1Shapes
  /\ overlayApi' \in BOOLEAN
  /\ mpc' = "start"
  /\ mIdx' = 0
  /\ templates' = << >>
  /\ binds' = {}
  /\ renderCalls' = 0
  /\ loopFrames' = 0
  /\ findPending' = 0
  /\ overlayCalls' = 0
  /\ skillMap' = << >>
  /\ doneSkills' = {}
  /\ manualBoxes' = << >>
  /\ mLast' = "load"
  /\ UNCHANGED localStorage
  /\ UNCHANGED pollVars

MainInit ==
  /\ variant = "A"
  /\ PollLoad
  /\ mAlt1 \in Alt1Shapes
  /\ overlayApi \in BOOLEAN
  /\ mpc = "start"
  /\ mIdx = 0
  /\ templates = << >>
  /\ binds = {}
  /\ renderCalls = 0
  /\ loopFrames = 0
  /\ findPending = 0
  /\ overlayCalls = 0
  /\ skillMap = << >>
  /\ doneSkills = {}
  /\ localStorage = << >>
  /\ manualBoxes = << >>
  /\ mLast = "load"

MainNext ==
  \/ Startup
  \/ BindFullSettles
  \/ ReadFullSettles
  \/ FindChatSettles
  \/ BindChatSettles
  \/ IconSettles
  \/ MatchSettles
  \/ LoopFrame
  \/ FindSettles
  \/ ManualChange
  \/ ManualReset
  \/ Reload

MainSpec == MainInit /\ [][MainNext]_vars

-----------------------------------------------------------------------------
\* Properties of src/src/main.ts (specification MainSpec).

\* The outcomes that make a guarded startup step fail.
GuardedFailures ==
  { "startup: no alt1", "startup: rsLinked no boolean", "startup: not linked",
    "bindFull failed", "readFull failed", "findChat throws", "findChat null",
    "findChat noMainbox", "bindChat failed" }

\* The manual tracker was rendered once and nothing of the chat loop exists.
FellBack ==
  /\ mpc = "fallback"
  /\ renderCalls = 1
  /\ DOMAIN manualBoxes = { ManualChkIdOf[n] : n \in Range(skillNames) }
  /\ loopFrames = 0
  /\ findPending = 0
  /\ overlayCalls = 0

\* C1: when a guarded startup step fails (no window.alt1, rsLinked no boolean,
\* rsLinked false, a bindRegion that throws, a read that throws, a chatbox.find
\* that throws or finds no chat box), renderManualTracker is called exactly once
\* and startup stops: until the page is loaded again no frame of the loop is
\* requested and no overlay call is made.
C1_FailureFallsBack ==
  /\ [](/\ mLast \in GuardedFailures => FellBack
        /\ mpc = "fallback" => FellBack
        /\ renderCalls > 0 => mpc = "fallback")
  /\ [][mpc = "fallback" => (Reload \/ (mpc' = "fallback" /\ FellBack'))]_vars

\* C1 witness: the chat-strip bindRegion of step 7 failed.
C1_Witness ==
  /\ mLast = "bindChat failed"
  /\ mpc = "fallback"
  /\ renderCalls = 1

\* C6: in the manual tracker each checkbox is checked iff the localStorage key
\* "jot-manual-<SkillName>" holds "true".
C6_DocumentedKeyTracksBox ==
  manualBoxes # << >> =>
    \A n \in Range(skillNames) :
      manualBoxes[ManualChkIdOf[n]] <=>
        getItem(localStorage, DocumentedKey(n)) = << "true" >>

\* What the code keeps instead: each checkbox is checked iff the key written
\* with U+2010 holds "true", and localStorage holds no other key.
ManualTrackerTracksWrittenKey ==
  /\ manualBoxes # << >> =>
       \A n \in Range(skillNames) :
         manualBoxes[ManualChkIdOf[n]] <=>
           getItem(localStorage, ManualKeyOf[n]) = << "true" >>
  /\ DOMAIN localStorage \subseteq { ManualKeyOf[n] : n \in Range(skillNames) }
  /\ mLast = "manualReset" =>
       localStorage = << >> /\ \A id \in DOMAIN manualBoxes : ~manualBoxes[id]

\* C9: while step 9 runs findSubimage on fullImgRef, the full-window bind of
\* step 2 is still held.
C9_FullBindHeldAtMatch == mpc = "matchIcon" => "full" \in binds

\* C10: once the loop is started there is at every moment exactly one loop
\* iteration pending or running, so the loop never stops: every iteration of
\* loop() leads to exactly one request of the next frame.
C10_OneIteration == mpc = "looping" => loopFrames + findPending = 1

\* What the code keeps of C10: there is never more than one iteration pending
\* or running, and every chatbox.find that returned a promise, resolved,
\* rejected or with a handler that throws, requests exactly one frame; the loop
\* stops when loop() itself throws.
OneFramePerSettledFind ==
  /\ [](mpc = "looping" => loopFrames + findPending \in 0..1)
  /\ [][FindSettles => loopFrames' = loopFrames + 1 /\ findPending' = 0]_vars
  /\ [][mpc = "looping" /\ loopFrames + findPending = 1 /\ loopFrames' + findPending' = 0
          => LoopFrame \/ Reload]_vars

\* The startup function of main.ts has returned or thrown.
StartupEnded == mpc \in { "fallback", "looping", "crashed" }

\* The manual tracker is rendered and the chat loop was never scheduled.
TrackerOutcome ==
  mpc = "fallback" /\ renderCalls = 1 /\ loopFrames = 0 /\ findPending = 0

\* The chat loop is scheduled (startup reached its last statement, which
\* requests the first frame) and the manual tracker was never rendered.
LoopOutcome ==
  /\ mpc = "looping" /\ renderCalls = 0
  /\ mLast \in { "match hit", "match nohit", "match throws" } =>
       loopFrames = 1 /\ findPending = 0

\* C12: every run of the startup sequence ends in exactly one of two outcomes,
\* the manual tracker rendered or the chat loop scheduled; no failure of a
\* startup step, an icon that fails to load in step 8 included, leaves the run
\* with neither, and a run that has not ended has neither yet.
C12_ExactlyOneOutcome ==
  /\ StartupEnded => (TrackerOutcome /\ ~LoopOutcome) \/ (LoopOutcome /\ ~TrackerOutcome)
  /\ ~StartupEnded => renderCalls = 0 /\ loopFrames = 0 /\ findPending = 0

\* What the code keeps of C12: a run that ends otherwise than by an icon that
\* fails to load has exactly one of the two outcomes; a run ended by such an
\* icon has neither.
OutcomeUnlessIconError ==
  /\ StartupEnded /\ mpc # "crashed" =>
       (TrackerOutcome /\ ~LoopOutcome) \/ (LoopOutcome /\ ~TrackerOutcome)
  /\ mpc = "crashed" => mLast = "iconError" /\ ~TrackerOutcome /\ ~LoopOutcome
  /\ mpc = "looping" /\ mLast = "match throws" => LoopOutcome
  /\ ~StartupEnded => renderCalls = 0 /\ loopFrames = 0 /\ findPending = 0

====
